---- MODULE Spec2Model ----
(***************************************************************************)
(* ralphio: the one-task-per-loop orchestrator (ralphio.js).               *)
(*                                                                         *)
(* The model follows the JavaScript event loop: a synchronous stretch of   *)
(* the controller between two awaits is one action; callbacks (an agent    *)
(* message consumed by the for-await loop of an invocation, the deadline   *)
(* timer of withTimeout, the inter-iteration sleep) run only while the     *)
(* controller is parked at an await.  The agent itself is an external      *)
(* process: its edits of the task store and of the working tree can land   *)
(* between any two controller steps.                                       *)
(***************************************************************************)
EXTENDS Naturals, Sequences, FiniteSets, TLC

VARIABLES
    mode,                 \* "once" (--once) or "until" (--until-success)
    pc,                   \* position of the controller
    iteration,            \* runUntilSuccess: let iteration
    consecutiveFailures,  \* runUntilSuccess: let consecutiveFailures
    exitCode,             \* argument of process.exit, NoExit while running
    agentPlanning,        \* file ./.agent/planning.md
    rootPlanning,         \* file ./planning.md
    promptFile,           \* state of ./.agent/prompt.md
    memoryFile,           \* state of ./.agent/memory.md
    memory,               \* the lines of ./.agent/memory.md
    calls,                \* withTimeout(queryPromise) calls still reachable, oldest first
    nextSid,              \* next session id the agent hands out
    currentTask,          \* runTask: const currentTask (0 is the default 'task')
    err,                  \* the error runTask rejected with
    committed,            \* runTask: const committed
    tree,                 \* git working tree
    started,              \* number of query() calls made in this run
    n0,                   \* unchecked entries of the task store when the run began
    streak,               \* failed iterations since the last successful one
    beforeSuccess,        \* failed iterations just before the last successful one
    probe                 \* argument and results of the function under study

vars == << mode, pc, iteration, consecutiveFailures, exitCode, agentPlanning,
           rootPlanning, promptFile, memoryFile, memory, calls, nextSid,
           currentTask, err, committed, tree, started, n0, streak,
           beforeSuccess, probe >>

(***************************************************************************)
(* Program constants.                                                      *)
(***************************************************************************)
maxIterations == 50
maxConsecutiveFailures == 3

(***************************************************************************)
(* Bounds of the model.                                                    *)
(***************************************************************************)
MaxTasks == 2       \* unchecked entries in the initial task store
MaxLive == 2        \* withTimeout calls whose timer or operation is pending
MaxSessions == 1    \* sessions the agent announces in one run
MaxMem == 2         \* lines of the memory store
MaxOver == 1        \* task stores hold up to maxIterations + MaxOver entries
MaxLines == 2       \* lines of a task store of mixed content
MaxCommitCalls == 2 \* autoCommitChanges calls in a row
MaxPieces == 3      \* pieces (a word and what follows it) of a task description
MaxStream == 3      \* messages of one event stream
MaxEnv == 3         \* characters of the value of LOOP_TIMEOUT_MS

NoExit == 99
NoSession == 0
DefaultTask == 0
EmptyResult == 0
DefaultTimeout == 600000

\* a line of memory.md written before the run: it carries no session id
OldLine == NoSession

(***************************************************************************)
(* Files.  A planning file is a sequence of lines; a line is an unchecked  *)
(* entry with text ("todo": `- [ ] text`), an unchecked marker with        *)
(* nothing after it ("bare": `- [ ]`), a checked entry ("done") or any     *)
(* other text ("note").                                                    *)
(***************************************************************************)
Entry(k, t) == [kind |-> k, text |-> t]
File(s, ls) == [state |-> s, lines |-> ls]
MissingFile == File("missing", << >>)

Todo(n) == [i \in 1..n |-> Entry("todo", i)]

\* the planning files of up to n lines, each line of any kind
Kinds == {"todo", "bare", "done", "note"}
Contents(n) ==
    UNION { { [i \in 1..k |-> Entry(ks[i], i)] : ks \in [1..k -> Kinds] } : k \in 0..n }

\* fs.existsSync(path)
existsSync(f) == f.state # "missing"

\* (mutant) the regexp takes a checked box for an unchecked one
AnyBoxLines(ls) == { i \in DOMAIN ls : ls[i].kind \in {"todo", "bare", "done"} }

\* planningContent.match(/^[ \t]*- \[ \]/gm): the lines carrying the
\* unchecked marker, with or without text after it.
UncheckedLines(ls) == { i \in DOMAIN ls : ls[i].kind \in {"todo", "bare"} }

\* (mutant) a store that cannot be read counts as unfinished work
UnreadableIsWork ==
    LET planning == IF existsSync(agentPlanning) THEN agentPlanning ELSE rootPlanning
    IN  /\ existsSync(planning)
        /\ planning.state = "ok" => UncheckedLines(planning.lines) # {}

\* hasUnfinishedTasks(): .agent/planning.md first, ./planning.md as the
\* fallback; a missing or unreadable store is "no tasks".
hasUnfinishedTasks ==
    LET planning == IF existsSync(agentPlanning) THEN agentPlanning ELSE rootPlanning
    IN  /\ existsSync(planning)
        /\ planning.state = "ok"
        /\ UncheckedLines(planning.lines) # {}

\* planningContent.match(/^[ \t]*- \[ \] (.+)$/m): the first line that has
\* the unchecked marker, a space and at least one character of text.
TaskMatch(ls) == { i \in DOMAIN ls : ls[i].kind = "todo" }

Min(S) == CHOOSE x \in S : \A y \in S : x <= y

\* runTask: const currentTask = taskMatch ? taskMatch[1] : 'task'
ExtractTask(ls) ==
    IF TaskMatch(ls) = {} THEN DefaultTask ELSE ls[Min(TaskMatch(ls))].text

\* runTask: the three readFileSync calls at the top of its try block
ReadsSucceed ==
    /\ promptFile = "ok"
    /\ memoryFile = "ok"
    /\ agentPlanning.state = "ok"

(***************************************************************************)
(* withTimeout(queryPromise, timeoutMs): one record per call.              *)
(*   op    the queryPromise: running, resolved or rejected                 *)
(*   timer the setTimeout of the guard: armed or fired                     *)
(*   race  the promise withTimeout returned                                *)
(*   sid   runTask's sessionId, shared with the for-await closure          *)
(*   result the closure's result: 0 is '', 1 a `result` message's text     *)
(*   late  where the controller was ("await", "sleep") when the closure    *)
(*         appended a breadcrumb after the race was over, else "none"      *)
(***************************************************************************)
NewCall == [op |-> "running", timer |-> "armed", race |-> "pending",
            sid |-> NoSession, result |-> 0, late |-> "none"]

\* (mutant) the last settlement wins
RaceLastWins(c, settlement) == settlement

\* Promise.race: the first settlement wins, later ones are ignored.
RaceAfter(c, settlement) == IF c.race = "pending" THEN settlement ELSE c.race

Dead(c) == c.op # "running" /\ c.timer = "fired"
NoDead == \A i \in DOMAIN calls : ~Dead(calls[i])

Cur == calls[Len(calls)]
\* the event loop is free to run a callback
Parked == pc \in {"await", "sleep"} /\ NoDead

TypeOK ==
    /\ mode \in {"once", "until"}
    /\ pc \in {"initial", "loop", "runTask", "await", "reconcile", "success",
               "catch", "sleep", "exited"}
    /\ iteration \in 1..(maxIterations + 1)
    /\ consecutiveFailures \in 0..maxConsecutiveFailures
    /\ exitCode \in {0, 1, 2, NoExit}
    /\ Len(calls) <= MaxLive
    /\ Len(memory) <= MaxMem
    /\ started \in 0..maxIterations

\* the process as it starts: --once calls runTask, --until-success
\* calls runUntilSuccess
Boot ==
    /\ mode \in {"once", "until"}
    /\ pc = IF mode = "once" THEN "runTask" ELSE "initial"
    /\ iteration = 1
    /\ consecutiveFailures = 0
    /\ exitCode = NoExit
    /\ calls = << >>
    /\ nextSid = 1
    /\ currentTask = DefaultTask
    /\ err = "none"
    /\ committed = "unset"
    /\ tree = "clean"
    /\ started = 0
    /\ streak = 0
    /\ beforeSuccess = 0

\* memory.md, where it exists, has content from before the run; no function
\* is under study
OldMemory ==
    /\ memory = IF memoryFile = "ok" THEN << OldLine >> ELSE << >>
    /\ probe = << >>

Init ==
    /\ Boot
    /\ n0 \in 0..MaxTasks
    /\ \/ agentPlanning = File("ok", Todo(n0)) /\ rootPlanning = MissingFile
       \/ agentPlanning = MissingFile /\ rootPlanning = File("ok", Todo(n0))
    /\ promptFile \in {"ok", "missing"}
    /\ memoryFile \in {"ok", "missing"}
    /\ OldMemory

\* process.exit(code): the process ends, its timers and pending promises with it
Exit(code) ==
    /\ pc' = "exited"
    /\ exitCode' = code
    /\ calls' = << >>

\* what no step of the program changes
fixed == << mode, probe >>
ctl == << iteration, consecutiveFailures, streak, beforeSuccess >>
files == << agentPlanning, rootPlanning, promptFile, memoryFile, n0 >>
task == << currentTask, err, committed, started >>

(***************************************************************************)
(* runUntilSuccess                                                         *)
(***************************************************************************)
\* "Initial check - if no tasks, don't start"
InitialCheck ==
    /\ pc = "initial"
    /\ IF hasUnfinishedTasks
         THEN pc' = "loop" /\ UNCHANGED << exitCode, calls >>
         ELSE Exit(0)
    /\ UNCHANGED << fixed, ctl, files, memory, nextSid, task, tree >>

\* (mutants) the ceiling is off by one, either way
LoopStopsEarly(it) == it < maxIterations
LoopRunsOver(it) == it <= maxIterations + 1

\* while (iteration <= maxIterations)
LoopCondition(it) == it <= maxIterations

\* (mutant) the guard is asked once more before the exit with code 2
LoopExhaustedAsksGuard ==
    /\ pc = "loop"
    /\ ~LoopCondition(iteration)
    /\ IF hasUnfinishedTasks THEN Exit(2) ELSE Exit(0)
    /\ UNCHANGED << fixed, ctl, files, memory, nextSid, task, tree >>

\* the loop condition is false: process.exit(2)
LoopExhausted ==
    /\ pc = "loop"
    /\ ~LoopCondition(iteration)
    /\ Exit(2)
    /\ UNCHANGED << fixed, ctl, files, memory, nextSid, task, tree >>

\* the guard at the head of the loop body finds no unchecked task
GuardDone ==
    /\ pc = "loop"
    /\ LoopCondition(iteration)
    /\ ~hasUnfinishedTasks
    /\ Exit(0)
    /\ UNCHANGED << fixed, ctl, files, memory, nextSid, task, tree >>

\* (mutant) the loop body has no guard of its own
GuardSkipped ==
    /\ pc = "loop"
    /\ LoopCondition(iteration)
    /\ pc' = "runTask"
    /\ UNCHANGED << fixed, ctl, exitCode, files, memory, calls, nextSid, task, tree >>

\* the guard passes: await runTask()
GuardPass ==
    /\ pc = "loop"
    /\ LoopCondition(iteration)
    /\ hasUnfinishedTasks
    /\ pc' = "runTask"
    /\ UNCHANGED << fixed, ctl, exitCode, files, memory, calls, nextSid, task, tree >>

\* (mutant) a success leaves the counter alone
CountSuccessKeeps(cf) == cf

\* consecutiveFailures = 0 on success, consecutiveFailures++ on failure
CountSuccess(cf) == 0

CountFailure(cf) == cf + 1

\* (mutant) the abort waits for one failure more
UnstableLate(cf) == cf > maxConsecutiveFailures

\* if (consecutiveFailures >= maxConsecutiveFailures) process.exit(1)
Unstable(cf) == cf >= maxConsecutiveFailures

\* runTask has settled: the locals of a closure whose stream has ended are
\* unreachable
Release(c) ==
    IF c.op = "running" THEN c
    ELSE [c EXCEPT !.sid = NoSession, !.result = 0, !.late = "none"]

\* (mutant) the loop counts an iteration twice
NextIterationSkips ==
    /\ iteration' = iteration + 2
    /\ pc' = IF iteration + 2 <= maxIterations THEN "sleep" ELSE "loop"
    /\ calls' = [i \in DOMAIN calls |-> Release(calls[i])]
    /\ UNCHANGED exitCode

\* iteration++, then the delay before the next turn of the loop, which is
\* skipped when the loop condition is about to fail
NextIteration ==
    /\ iteration' = iteration + 1
    /\ pc' = IF iteration + 1 <= maxIterations THEN "sleep" ELSE "loop"
    /\ calls' = [i \in DOMAIN calls |-> Release(calls[i])]
    /\ UNCHANGED exitCode

(***************************************************************************)
(* runTask                                                                 *)
(***************************************************************************)
\* runTask up to its await: the store reads, the task extraction, the
\* query() call made by the queryPromise closure, withTimeout's timer.
RunTaskStart ==
    /\ pc = "runTask"
    /\ IF ReadsSucceed
         THEN /\ currentTask' = ExtractTask(agentPlanning.lines)
              /\ calls' = Append(calls, NewCall)
              /\ started' = started + 1
              /\ err' = "none"
              /\ pc' = "await"
         ELSE /\ err' = "read"
              /\ pc' = "catch"
              /\ UNCHANGED << currentTask, calls, started >>
    /\ UNCHANGED << fixed, ctl, exitCode, files, memory, nextSid, committed, tree >>

(***************************************************************************)
(* The queryPromise closure: for await (const message of query(...)).      *)
(* Call i consumes one message per step until its stream ends.             *)
(***************************************************************************)
Running(i) == i \in DOMAIN calls /\ calls[i].op = "running"

\* (mutant) sessionId is one variable shared by all runTask calls
MsgInitShared(i) ==
    /\ Parked /\ Running(i)
    /\ calls[i].sid = NoSession
    /\ nextSid <= MaxSessions
    /\ calls' = [j \in DOMAIN calls |-> [calls[j] EXCEPT !.sid = nextSid]]
    /\ nextSid' = nextSid + 1
    /\ UNCHANGED << fixed, pc, ctl, exitCode, files, memory, task, tree >>

\* message.type === "system" && message.subtype === "init"
MsgInit(i) ==
    /\ Parked /\ Running(i)
    /\ calls[i].sid = NoSession
    /\ nextSid <= MaxSessions
    /\ calls' = [calls EXCEPT ![i].sid = nextSid]
    /\ nextSid' = nextSid + 1
    /\ UNCHANGED << fixed, pc, ctl, exitCode, files, memory, task, tree >>

\* (mutant) the breadcrumb is written with writeFileSync
BreadcrumbOverwrites(mem, sid) == IF sid # NoSession THEN << sid >> ELSE mem

\* if (sessionId) fs.appendFileSync('.agent/memory.md', ...)
Breadcrumb(mem, sid) == IF sid # NoSession THEN Append(mem, sid) ELSE mem

\* message.type === "result".  The agent's first message is the init
\* message, so a result comes from an announced session.
MsgResult(i) ==
    /\ Parked /\ Running(i)
    /\ calls[i].sid # NoSession
    /\ Len(memory) < MaxMem
    /\ calls' = [calls EXCEPT ![i].result = 1,
                              ![i].late = IF calls[i].race # "pending" THEN pc ELSE @]
    /\ memory' = Breadcrumb(memory, calls[i].sid)
    /\ UNCHANGED << fixed, pc, ctl, exitCode, files, nextSid, task, tree >>

\* (mutant) runTask awaits the operation itself: the deadline wakes nobody
ResumeOnOperation(i, to, e) ==
    IF calls[i].race = "pending" /\ e # "timeout"
        THEN pc' = to /\ err' = e
        ELSE UNCHANGED << pc, err >>

\* The await in runTask resumes only for the call it is waiting on, and only
\* on the settlement that won the race.
Resume(i, to, e) ==
    IF calls[i].race = "pending"
        THEN pc' = to /\ err' = e
        ELSE UNCHANGED << pc, err >>

\* (mutant) the task is read again when the invocation is over
CloseStreamRereads(i) ==
    /\ Parked /\ Running(i)
    /\ calls' = [calls EXCEPT ![i].op = "resolved",
                              ![i].race = RaceAfter(calls[i], "fulfilled")]
    /\ Resume(i, "reconcile", "none")
    /\ currentTask' = ExtractTask(agentPlanning.lines)
    /\ UNCHANGED << fixed, ctl, exitCode, rootPlanning, promptFile, memoryFile, n0,
                    memory, nextSid, committed, started, tree >>

\* the stream is exhausted: the closure returns result
CloseStream(i) ==
    /\ Parked /\ Running(i)
    /\ calls' = [calls EXCEPT ![i].op = "resolved",
                              ![i].race = RaceAfter(calls[i], "fulfilled")]
    /\ Resume(i, "reconcile", "none")
    /\ UNCHANGED << fixed, ctl, exitCode, rootPlanning, promptFile, memoryFile, n0,
                    memory, nextSid, currentTask, committed, started, tree >>

StreamEnd(i) == CloseStream(i) /\ UNCHANGED agentPlanning

\* the stream throws: the closure rejects
StreamError(i) ==
    /\ Parked /\ Running(i)
    /\ calls' = [calls EXCEPT ![i].op = "rejected",
                              ![i].race = RaceAfter(calls[i], "rejected")]
    /\ Resume(i, "catch", "invocation")
    /\ UNCHANGED << fixed, ctl, exitCode, files, memory, nextSid, currentTask,
                    committed, started, tree >>

\* (mutant) the timeout aborts the operation
OpCancelled(c) == IF c.op = "running" THEN "rejected" ELSE c.op

\* withTimeout has no handle on the operation: the timer leaves it as it is
OpAfterTimeout(c) == c.op

\* withTimeout's setTimeout callback: reject(new Error('Operation timed out'))
TimerFire(i) ==
    /\ Parked
    /\ i \in DOMAIN calls
    /\ calls[i].timer = "armed"
    /\ calls' = [calls EXCEPT ![i].timer = "fired",
                              ![i].op = OpAfterTimeout(calls[i]),
                              ![i].race = RaceAfter(calls[i], "timeout")]
    /\ Resume(i, "catch", "timeout")
    /\ UNCHANGED << fixed, ctl, exitCode, files, memory, nextSid, currentTask,
                    committed, started, tree >>

\* A call whose operation has settled and whose timer has fired can do
\* nothing more: it is dropped.
Reap ==
    /\ pc \in {"await", "sleep"}
    /\ ~NoDead
    /\ calls' = SelectSeq(calls, LAMBDA c : ~Dead(c))
    /\ UNCHANGED << fixed, pc, ctl, exitCode, files, memory, nextSid, task, tree >>

(***************************************************************************)
(* autoCommitChanges(taskDescription, sessionId).  f names the git command *)
(* that fails (step) and whether the error message holds "nothing to       *)
(* commit" (nothing).  The working tree is clean, dirty (changes that      *)
(* `git add -A` stages), staged (changes already in the index) or          *)
(* unstageable (`git status` reports changes that `git add -A` does not    *)
(* stage, such as modified content inside a submodule).  The result is the *)
(* return value (ok), the tree left, the git commands run in order (ran),  *)
(* the number of commits created and the path taken (outcome).             *)
(***************************************************************************)
Trees == {"clean", "dirty", "staged", "unstageable"}

NoFailure == [step |-> "none", nothing |-> FALSE]
GitFailures ==
    {NoFailure} \cup [step : {"status", "add", "diff", "commit"}, nothing : BOOLEAN]

\* (mutant) the catch block does not look at the message
CaughtIsFailure(f) == FALSE

\* the catch block: "nothing to commit" is fine, anything else is false
CommitCaught(f) == f.nothing

\* the catch block as a whole; before `return false` it runs
\* `git status --short` for the log
Caught(f, t, ran) ==
    IF CommitCaught(f)
        THEN [ok |-> TRUE, tree |-> t, ran |-> ran, commits |-> 0,
              outcome |-> "NothingToCommit"]
        ELSE [ok |-> FALSE, tree |-> t, ran |-> Append(ran, "status --short"),
              commits |-> 0, outcome |-> "CommitFailed"]

\* (mutant) the early return on a clean status is missing
StatusNeverClean(t) == FALSE

\* if (!status.trim())
StatusClean(t) == t = "clean"

\* if (!stagedChanges.trim())
NothingStaged(t) == t \in {"clean", "unstageable"}

\* git add -A
StageAll(t) == IF t = "dirty" THEN "staged" ELSE t

\* (mutant) the function commits with --allow-empty and checks nothing
CommitAllowEmpty(t, f) ==
    IF f.step = "commit"
        THEN Caught(f, t, << "commit" >>)
        ELSE [ok |-> TRUE, tree |-> "clean", ran |-> << "commit" >>, commits |-> 1,
              outcome |-> "Committed"]

autoCommitChanges(t, f) ==
    IF f.step = "status" THEN Caught(f, t, << "status" >>)
    ELSE IF StatusClean(t)
        THEN [ok |-> TRUE, tree |-> t, ran |-> << "status" >>, commits |-> 0,
              outcome |-> "NothingToCommit"]
    ELSE IF f.step = "add" THEN Caught(f, t, << "status", "add" >>)
    ELSE IF f.step = "diff" THEN Caught(f, StageAll(t), << "status", "add", "diff" >>)
    ELSE IF NothingStaged(StageAll(t))
        THEN [ok |-> TRUE, tree |-> StageAll(t), ran |-> << "status", "add", "diff" >>,
              commits |-> 0, outcome |-> "NothingToCommit"]
    ELSE IF f.step = "commit"
        THEN Caught(f, StageAll(t), << "status", "add", "diff", "commit" >>)
    ELSE [ok |-> TRUE, tree |-> "clean", ran |-> << "status", "add", "diff", "commit" >>,
          commits |-> 1, outcome |-> "Committed"]

\* (mutant) a failed commit fails the task
CommitEscalates(ok) == IF ok THEN "success" ELSE "catch"

\* if (!committed) only warns; runTask goes on to `return result`
AfterCommit(ok) == "success"

\* runTask after the await: const committed = autoCommitChanges(...)
Reconcile ==
    /\ pc = "reconcile"
    /\ \E f \in GitFailures :
          LET r == autoCommitChanges(tree, f)
          IN  /\ committed' = IF r.ok THEN "true" ELSE "false"
              /\ tree' = r.tree
              /\ pc' = AfterCommit(r.ok)
    /\ UNCHANGED << fixed, ctl, exitCode, files, memory, calls, nextSid,
                    currentTask, err, started >>

\* runTask has returned or thrown: its own locals are gone
Return ==
    /\ currentTask' = DefaultTask
    /\ err' = "none"
    /\ committed' = "unset"

\* runTask returned: the try branch of runUntilSuccess, or the .then of --once
Success ==
    /\ pc = "success"
    /\ IF mode = "once"
         THEN Exit(0) /\ UNCHANGED ctl
         ELSE /\ consecutiveFailures' = CountSuccess(consecutiveFailures)
              /\ streak' = 0
              /\ beforeSuccess' = streak
              /\ NextIteration
    /\ Return
    /\ UNCHANGED << fixed, files, memory, nextSid, started, tree >>

\* (mutant) in the last iteration the ceiling is looked at before the abort
CatchCeilingFirst ==
    /\ pc = "catch"
    /\ IF mode = "once"
         THEN Exit(1) /\ UNCHANGED ctl
         ELSE /\ consecutiveFailures' = CountFailure(consecutiveFailures)
              /\ streak' = streak + 1
              /\ UNCHANGED beforeSuccess
              /\ IF Unstable(CountFailure(consecutiveFailures))
                    /\ iteration < maxIterations
                   THEN Exit(1) /\ UNCHANGED iteration
                   ELSE NextIteration
    /\ Return
    /\ UNCHANGED << fixed, files, memory, nextSid, started, tree >>

\* runTask threw (its catch logs and rethrows): the catch branch of
\* runUntilSuccess, or the .catch of --once
Catch ==
    /\ pc = "catch"
    /\ IF mode = "once"
         THEN Exit(1) /\ UNCHANGED ctl
         ELSE /\ consecutiveFailures' = CountFailure(consecutiveFailures)
              /\ streak' = streak + 1
              /\ UNCHANGED beforeSuccess
              /\ IF Unstable(CountFailure(consecutiveFailures))
                   THEN Exit(1) /\ UNCHANGED iteration
                   ELSE NextIteration
    /\ Return
    /\ UNCHANGED << fixed, files, memory, nextSid, started, tree >>

\* await new Promise(resolve => setTimeout(resolve, ...)) is over.  The
\* model lets the timer of a settled call fire first (it changes nothing)
\* and bounds the abandoned invocations that are still running.
Wake ==
    /\ pc = "sleep"
    /\ \A i \in DOMAIN calls : calls[i].op = "running"
    /\ Len(calls) < MaxLive
    /\ pc' = "loop"
    /\ UNCHANGED << fixed, ctl, exitCode, files, memory, calls, nextSid, task, tree >>

(***************************************************************************)
(* The agent process of a running invocation, outside the event loop.      *)
(***************************************************************************)
CheckFirst(f) ==
    [f EXCEPT !.lines[Min(TaskMatch(f.lines))].kind = "done"]

\* the agent marks the first unchecked task complete in .agent/planning.md
AgentCheckOff(i) ==
    /\ Parked /\ Running(i)
    /\ agentPlanning.state = "ok"
    /\ TaskMatch(agentPlanning.lines) # {}
    /\ agentPlanning' = CheckFirst(agentPlanning)
    /\ UNCHANGED << fixed, pc, ctl, exitCode, rootPlanning, promptFile, memoryFile,
                    n0, memory, calls, nextSid, task, tree >>

\* the agent changes files of the working tree
AgentWrite(i) ==
    /\ Parked /\ Running(i)
    /\ tree # "dirty"
    /\ tree' = "dirty"
    /\ UNCHANGED << fixed, pc, ctl, exitCode, files, memory, calls, nextSid, task >>

\* the agent commits its own work
AgentCommit(i) ==
    /\ Parked /\ Running(i)
    /\ tree # "clean"
    /\ tree' = "clean"
    /\ UNCHANGED << fixed, pc, ctl, exitCode, files, memory, calls, nextSid, task >>

\* the agent removes .agent/planning.md, or leaves something in its place
\* that readFileSync cannot read
AgentLosesStore(i) ==
    /\ Parked /\ Running(i)
    /\ agentPlanning.state = "ok"
    /\ agentPlanning' \in {MissingFile, File("unreadable", << >>)}
    /\ UNCHANGED << fixed, pc, ctl, exitCode, rootPlanning, promptFile, memoryFile,
                    n0, memory, calls, nextSid, task, tree >>

\* An agent that always succeeds: it checks off exactly one task and its
\* stream then ends, before the deadline.
IdealInvocation(i) ==
    /\ agentPlanning.state = "ok"
    /\ TaskMatch(agentPlanning.lines) # {}
    /\ agentPlanning' = CheckFirst(agentPlanning)
    /\ CloseStream(i)

\* the deadline of a call whose operation has settled
LateTimer(i) ==
    /\ i \in DOMAIN calls
    /\ calls[i].op # "running"
    /\ TimerFire(i)

Slots == 1..MaxLive

(***************************************************************************)
(* Specifications.  Core is the program with an agent that ends, breaks or *)
(* outlives its invocation and checks tasks off; Sessions adds the session *)
(* and result messages, Tree the agent's changes of the working tree.      *)
(***************************************************************************)
Core ==
    \/ InitialCheck
    \/ LoopExhausted
    \/ GuardDone
    \/ GuardPass
    \/ RunTaskStart
    \/ \E i \in Slots : StreamEnd(i)
    \/ \E i \in Slots : StreamError(i)
    \/ \E i \in Slots : TimerFire(i)
    \/ Reap
    \/ Reconcile
    \/ Success
    \/ Catch
    \/ Wake
    \/ \E i \in Slots : AgentCheckOff(i)

Sessions ==
    \/ \E i \in Slots : MsgInit(i)
    \/ \E i \in Slots : MsgResult(i)

Tree ==
    \/ \E i \in Slots : AgentWrite(i)
    \/ \E i \in Slots : AgentCommit(i)

Next == Core \/ Sessions \/ Tree

Spec == Init /\ [][Next]_vars

SpecLoop == Init /\ [][Core]_vars

SpecTree == Init /\ [][Core \/ Tree]_vars

InitSessions == Init /\ n0 = 1 /\ mode = "until"

SpecSessions == InitSessions /\ [][Core \/ Sessions]_vars

\* --until-success with an agent that can take the task store away; either
\* planning file, or both, can be there when the run starts
InitLost ==
    /\ Boot
    /\ mode = "until"
    /\ n0 \in 1..MaxTasks
    /\ agentPlanning = File("ok", Todo(n0))
    /\ rootPlanning \in {MissingFile, File("ok", Todo(1))}
    /\ promptFile = "ok"
    /\ memoryFile = "ok"
    /\ OldMemory

Lost == \E i \in Slots : AgentLosesStore(i)

SpecLost == InitLost /\ [][Core \/ Lost]_vars

(***************************************************************************)
(* The run under fair scheduling.  An abandoned invocation may go on for   *)
(* ever, so the delay ends however many of them are still running; when    *)
(* there is no room for one more, the oldest is taken to stay silent from  *)
(* then on and is dropped.                                                 *)
(***************************************************************************)
WakeAny ==
    /\ pc = "sleep"
    /\ \A i \in DOMAIN calls : calls[i].op = "running"
    /\ pc' = "loop"
    /\ calls' = IF Len(calls) < MaxLive THEN calls ELSE Tail(calls)
    /\ UNCHANGED << fixed, ctl, exitCode, files, memory, nextSid, task, tree >>

\* the steps of the program and of its timers: the event loop runs each of
\* them once it is due
Scheduled ==
    \/ InitialCheck
    \/ LoopExhausted
    \/ GuardDone
    \/ GuardPass
    \/ RunTaskStart
    \/ \E i \in Slots : TimerFire(i)
    \/ Reap
    \/ Reconcile
    \/ Success
    \/ Catch
    \/ WakeAny

\* the steps of the agent, which may never come
Unscheduled ==
    \/ \E i \in Slots : StreamEnd(i)
    \/ \E i \in Slots : StreamError(i)
    \/ \E i \in Slots : AgentCheckOff(i)

InitFair == Init /\ mode = "until"

SpecFair == InitFair /\ [][Scheduled \/ Unscheduled]_vars /\ WF_vars(Scheduled)

\* the program itself at rest, while one of its functions is studied
AtRest ==
    /\ Boot
    /\ mode = "once"
    /\ n0 = 0
    /\ agentPlanning = MissingFile
    /\ rootPlanning = MissingFile
    /\ promptFile = "missing"
    /\ memoryFile = "missing"
    /\ memory = << >>

program == << mode, pc, iteration, consecutiveFailures, exitCode, agentPlanning,
              rootPlanning, promptFile, memoryFile, memory, calls, nextSid,
              currentTask, err, committed, tree, started, n0, streak,
              beforeSuccess >>

(***************************************************************************)
(* The task text of the commit message (autoCommitChanges, "Sanitize       *)
(* task").  A string is a sequence of characters.                          *)
(***************************************************************************)
TruncateAt == 50
WordCutMin == 30

DefaultText == << "t", "a", "s", "k" >>

\* [a-zA-Z0-9 \-_]
SafeChars == {"a", "k", "s", "t", "-", "_", " "}
\* \s
WhiteSpace == {" ", "\t"}

\* (mutant) nothing is stripped
StripNothing(str) == str

\* .replace(/[^a-zA-Z0-9 \-_]/g, '')
StripUnsafe(str) == SelectSeq(str, LAMBDA c : c \in SafeChars)

\* .replace(/\s+/g, ' '): every run of white space becomes one space
NormalizeSpaces(str) ==
    LET marked == [i \in DOMAIN str |->
                      [c |-> IF str[i] \in WhiteSpace THEN " " ELSE str[i],
                       keep |-> \/ str[i] \notin WhiteSpace
                                \/ i = 1
                                \/ str[i - 1] \notin WhiteSpace]]
        kept == SelectSeq(marked, LAMBDA m : m.keep)
    IN  [i \in DOMAIN kept |-> kept[i].c]

\* .trim()
Trim(str) ==
    LET black == { i \in DOMAIN str : str[i] \notin WhiteSpace }
    IN  IF black = {} THEN << >>
        ELSE SubSeq(str, CHOOSE i \in black : \A j \in black : i <= j,
                         CHOOSE i \in black : \A j \in black : j <= i)

\* x || 'task'
OrDefault(str) == IF str = << >> THEN DefaultText ELSE str

\* the sanitized description
Sanitized(description) ==
    Trim(NormalizeSpaces(StripUnsafe(OrDefault(description))))

\* task.lastIndexOf(' ') + 1: the position of the last space, 0 if none
LastSpace(str) ==
    IF \E i \in DOMAIN str : str[i] = " "
        THEN CHOOSE i \in DOMAIN str :
                 str[i] = " " /\ \A j \in DOMAIN str : str[j] = " " => j <= i
        ELSE 0

\* (mutant) the cut goes to the last space wherever it is
CutAtAnySpace(pos) == pos > 0

\* if (lastSpace > 30)
CutAtSpace(pos) == pos > WordCutMin + 1

\* "Smart truncation"
Truncated(str) ==
    IF Len(str) > TruncateAt
        THEN LET head == SubSeq(str, 1, TruncateAt)
             IN  IF CutAtSpace(LastSpace(head))
                     THEN SubSeq(head, 1, LastSpace(head) - 1)
                     ELSE head
        ELSE str

\* the task text that goes into commitMsg
CommitTask(description) == OrDefault(Trim(Truncated(Sanitized(description))))

(***************************************************************************)
(* Task descriptions: up to MaxPieces pieces, each a word of letters       *)
(* (possibly empty) followed by a separator: a space, an unsafe character, *)
(* a tab or a hyphen.                                                      *)
(***************************************************************************)
WordLengths == {0, 19, 30, 31, 51}
Separators == { << " " >>, << "!" >>, << "\t" >>, << "-" >> }
Pieces == [len : WordLengths, sep : Separators]

Word(n) == [i \in 1..n |-> "a"]

RECURSIVE Text(_)
Text(ps) ==
    IF ps = << >> THEN << >>
    ELSE Word(ps[1].len) \o ps[1].sep \o Text(Tail(ps))

Descriptions == UNION { { Text(ps) : ps \in [1..k -> Pieces] } : k \in 0..MaxPieces }

InitSanitize ==
    /\ AtRest
    /\ probe \in [description : Descriptions, task : {<< >>}, done : {FALSE}]

\* autoCommitChanges builds the task text of its commit message
Sanitize ==
    /\ ~probe.done
    /\ probe' = [probe EXCEPT !.task = CommitTask(probe.description), !.done = TRUE]
    /\ UNCHANGED program

SpecSanitize == InitSanitize /\ [][Sanitize]_vars

(***************************************************************************)
(* The queryPromise closure on its own: it consumes the messages of one    *)
(* event stream in order.  A message has a type and a value (the session   *)
(* id of an init message, the text of a result message).                   *)
(***************************************************************************)
MessageTypes == {"init", "assistant", "tool_result", "result", "other"}
Values == {1, 2}
Messages == [type : MessageTypes, val : Values]
Streams == UNION { [1..k -> Messages] : k \in 0..MaxStream }

\* (mutant) the closure keeps the first result it sees
FirstResultKept(r, m) == IF m.type = "result" /\ r = EmptyResult THEN m.val ELSE r

\* result = message.result, in the branch of the result message
ResultAfter(r, m) == IF m.type = "result" THEN m.val ELSE r

\* sessionId = message.session_id, in the branch of the init message
SessionAfter(sid, m) == IF m.type = "init" THEN m.val ELSE sid

\* let result = '' and the closure at the head of its for-await loop
InitAdapter ==
    /\ AtRest
    /\ probe \in [stream : Streams, pos : {1}, sessionId : {NoSession},
                   result : {EmptyResult}, logged : {0}, crumbs : {<< >>},
                   outcome : {"pending"}, returned : {EmptyResult}]

\* one turn of the for-await loop: every branch logs its message, the
\* result branch also appends the breadcrumb
Consume ==
    /\ probe.outcome = "pending"
    /\ probe.pos <= Len(probe.stream)
    /\ LET m == probe.stream[probe.pos]
       IN  probe' = [probe EXCEPT
                        !.pos = @ + 1,
                        !.sessionId = SessionAfter(@, m),
                        !.result = ResultAfter(@, m),
                        !.logged = @ + 1,
                        !.crumbs = IF m.type = "result"
                                      THEN Breadcrumb(@, probe.sessionId)
                                      ELSE @]
    /\ UNCHANGED program

\* the stream is exhausted: return result
ReturnResult ==
    /\ probe.outcome = "pending"
    /\ probe.pos > Len(probe.stream)
    /\ probe' = [probe EXCEPT !.outcome = "returned", !.returned = probe.result]
    /\ UNCHANGED program

\* the stream throws instead of delivering its next message: the closure
\* rejects
StreamThrows ==
    /\ probe.outcome = "pending"
    /\ probe.pos <= Len(probe.stream)
    /\ probe' = [probe EXCEPT !.outcome = "rejected"]
    /\ UNCHANGED program

SpecAdapter == InitAdapter /\ [][Consume \/ ReturnResult \/ StreamThrows]_vars

(***************************************************************************)
(* getTimeout() on its own.  The environment variable LOOP_TIMEOUT_MS is   *)
(* unset or holds a string; parseInt(string, 10) skips leading white       *)
(* space, takes an optional sign and then the longest run of decimal       *)
(* digits, ignoring whatever follows; with no digit the result is NaN.     *)
(***************************************************************************)
Digits == << "0", "1", "2" >>
IsDigit(c) == \E d \in DOMAIN Digits : Digits[d] = c
DigitValue(c) == (CHOOSE d \in DOMAIN Digits : Digits[d] = c) - 1

EnvChars == {"0", "1", "2", "-", "+", " ", "a", "."}
EnvTexts == UNION { [1..k -> EnvChars] : k \in 0..MaxEnv }
EnvValues == {[set |-> FALSE, text |-> << >>]} \cup [set : {TRUE}, text : EnvTexts]

\* the value of a run of decimal digits
Decimal(ds) ==
    LET RECURSIVE upTo(_)
        upTo(k) == IF k = 0 THEN 0 ELSE 10 * upTo(k - 1) + DigitValue(ds[k])
    IN  upTo(Len(ds))

\* the integer a string denotes when the whole of it, white space around it
\* aside, has to be a sign and decimal digits
ParseWhole(str) ==
    LET black == { i \in DOMAIN str : str[i] \notin WhiteSpace }
        first == IF black = {} THEN 1 ELSE CHOOSE i \in black : \A j \in black : i <= j
        last == IF black = {} THEN 0 ELSE CHOOSE i \in black : \A j \in black : j <= i
        signed == first <= last /\ str[first] \in {"+", "-"}
        from == IF signed THEN first + 1 ELSE first
        run == SubSeq(str, from, last)
    IN  IF run = << >> \/ \E i \in DOMAIN run : ~IsDigit(run[i])
            THEN [nan |-> TRUE, val |-> 0]
            ELSE [nan |-> FALSE,
                  val |-> IF signed /\ str[first] = "-" THEN 0 - Decimal(run)
                          ELSE Decimal(run)]

\* parseInt(str, 10)
parseInt(str) ==
    LET black == { i \in DOMAIN str : str[i] \notin WhiteSpace }
        first == IF black = {} THEN Len(str) + 1
                 ELSE CHOOSE i \in black : \A j \in black : i <= j
        signed == first <= Len(str) /\ str[first] \in {"+", "-"}
        from == IF signed THEN first + 1 ELSE first
        stops == { i \in from..Len(str) : ~IsDigit(str[i]) } \cup {Len(str) + 1}
        to == (CHOOSE i \in stops : \A j \in stops : i <= j) - 1
        run == SubSeq(str, from, to)
    IN  IF run = << >>
            THEN [nan |-> TRUE, val |-> 0]
            ELSE [nan |-> FALSE,
                  val |-> IF signed /\ str[first] = "-" THEN 0 - Decimal(run)
                          ELSE Decimal(run)]

\* getTimeout(): an unset or empty variable is falsy
getTimeout(env) ==
    IF env.set /\ env.text # << >>
        THEN LET timeout == parseInt(env.text)
             IN  IF timeout.nan \/ timeout.val <= 0
                     THEN DefaultTimeout
                     ELSE timeout.val
        ELSE DefaultTimeout

InitTimeout ==
    /\ AtRest
    /\ probe \in [env : EnvValues, timeout : {0}, done : {FALSE}]

\* runTask: const timeoutMs = getTimeout()
GetTimeout ==
    /\ ~probe.done
    /\ probe' = [probe EXCEPT !.timeout = getTimeout(probe.env), !.done = TRUE]
    /\ UNCHANGED program

SpecTimeout == InitTimeout /\ [][GetTimeout]_vars

(***************************************************************************)
(* autoCommitChanges on its own: calls in a row on a working tree that     *)
(* somebody may change between two calls.  The program itself is at rest.  *)
(***************************************************************************)
InitCommit ==
    /\ AtRest
    /\ probe \in [tree : Trees, touched : {FALSE}, log : {<< >>}]

\* one call of autoCommitChanges on the tree as it is
CommitCall ==
    /\ Len(probe.log) < MaxCommitCalls
    /\ \E f \in GitFailures :
          LET r == autoCommitChanges(probe.tree, f)
          IN  probe' = [tree |-> r.tree, touched |-> FALSE,
                        log |-> Append(probe.log,
                                   [before |-> probe.tree, touched |-> probe.touched,
                                    f |-> f, r |-> r])]
    /\ UNCHANGED program

\* the working tree changes between two calls
TreeChange ==
    /\ Len(probe.log) < MaxCommitCalls
    /\ \E t \in Trees \ {probe.tree} :
          probe' = [probe EXCEPT !.tree = t, !.touched = TRUE]
    /\ UNCHANGED program

SpecCommit == InitCommit /\ [][CommitCall \/ TreeChange]_vars

\* the store the entry guard reads
GuardStore == IF existsSync(agentPlanning) THEN agentPlanning ELSE rootPlanning
Open(f) == { i \in DOMAIN f.lines : f.lines[i].kind \in {"todo", "bare"} }

\* --until-success on task stores of mixed content: only .agent/planning.md,
\* only ./planning.md, both, or none; a store can be unreadable.
InitStores ==
    /\ Boot
    /\ mode = "until"
    /\ agentPlanning \in {MissingFile, File("unreadable", << >>)}
                          \cup { File("ok", c) : c \in Contents(MaxLines) }
    /\ rootPlanning \in IF agentPlanning = MissingFile
                           THEN {MissingFile, File("unreadable", << >>)}
                                  \cup { File("ok", c) : c \in Contents(MaxLines) }
                           ELSE {MissingFile, File("ok", Todo(1))}
    /\ n0 = Cardinality(Open(GuardStore))
    /\ promptFile = "ok"
    /\ memoryFile = "ok"
    /\ OldMemory

SpecStores == InitStores /\ [][Core]_vars

Ideal ==
    \/ InitialCheck
    \/ LoopExhausted
    \/ GuardDone
    \/ GuardPass
    \/ RunTaskStart
    \/ \E i \in Slots : IdealInvocation(i)
    \/ \E i \in Slots : LateTimer(i)
    \/ Reap
    \/ Reconcile
    \/ Success
    \/ Wake

InitIdeal ==
    /\ Boot
    /\ mode = "until"
    /\ n0 \in 0..(maxIterations + MaxOver)
    /\ agentPlanning = File("ok", Todo(n0))
    /\ rootPlanning = MissingFile
    /\ promptFile = "ok"
    /\ memoryFile = "ok"
    /\ OldMemory

\* the event loop runs every callback that is due
SpecIdeal == InitIdeal /\ [][Ideal]_vars /\ WF_vars(Ideal)

(***************************************************************************)
(* Properties                                                              *)
(***************************************************************************)
InFlight == { i \in DOMAIN calls : calls[i].op = "running" }

\* call i is the same call before and after the step
Kept(i) == i \in DOMAIN calls /\ i \in DOMAIN calls' /\ Len(calls') >= Len(calls)

IdealDone == pc = "exited" /\ exitCode = 0 /\ started = n0

IdealStopped == pc = "exited" /\ exitCode = 2 /\ started = maxIterations

\* C1 (as amended): with an agent that always succeeds and checks off exactly
\* one entry per invocation, a run on a store of N unchecked entries never
\* makes more than N invocations; when N is below the iteration ceiling of 50
\* it makes exactly N and ends with exit code 0, and when N is 50 or more it
\* makes exactly 50 and ends with exit code 2.
C1_IdealRun ==
    /\ [](started <= n0)
    /\ <>[](IF n0 < maxIterations THEN IdealDone ELSE IdealStopped)

C1_Witness == IdealDone /\ n0 = maxIterations - 1 /\ iteration = maxIterations

\* C1 (as stated): for every N the run ends with exit code 0 after exactly N
\* invocations.
C1_AsStated == pc = "exited" => exitCode = 0 /\ started = n0

\* C2: a third consecutive failed iteration ends the run at once with exit
\* code 1, whatever tasks remain; a fourth consecutive failure never happens.
C2_ThreeFailuresAbort ==
    /\ streak <= maxConsecutiveFailures
    /\ streak = maxConsecutiveFailures => pc = "exited" /\ exitCode = 1

C2_Witness ==
    /\ streak = maxConsecutiveFailures
    /\ started = maxConsecutiveFailures
    /\ exitCode = 1
    /\ hasUnfinishedTasks

\* C3: consecutiveFailures is the number of failed iterations since the last
\* successful one, and runUntilSuccess exits with code 1 only when that
\* number is 3: failure, failure, success, failure, failure does not abort.
C3_CounterIsStreak ==
    /\ consecutiveFailures = streak
    /\ (mode = "until" /\ exitCode = 1) => streak = maxConsecutiveFailures

C3_Witness ==
    /\ beforeSuccess = 2
    /\ streak = 2
    /\ consecutiveFailures = 2
    /\ pc = "sleep"

\* C4: a run starts at most 50 invocations, and once 50 iterations are over
\* without an exit the only thing left is the exit with code 2.
C4_IterationCeiling ==
    /\ started <= maxIterations
    /\ iteration > maxIterations => pc = "loop" \/ (pc = "exited" /\ exitCode = 2)
    /\ exitCode = 2 => iteration = maxIterations + 1

C4_Witness == exitCode = 2 /\ started = maxIterations

\* C5: at most one agent invocation is in flight at any moment of a run.
C5_OneInFlight == Cardinality(InFlight) <= 1

\* C6: the promise of withTimeout settles once, with the outcome of whichever
\* of the operation and the deadline comes first; the later of the two leaves
\* it as it is, and for a running operation the only settlement is the
\* timeout.
C6_SettlesOnce ==
    [][\A i \in DOMAIN calls : Kept(i) =>
         /\ calls[i].race # "pending" => calls'[i].race = calls[i].race
         /\ calls[i].race = "pending" =>
              /\ calls[i].op = "running" /\ calls[i].timer = "armed"
              /\ calls'[i].op = "resolved" => calls'[i].race = "fulfilled"
              /\ calls'[i].op = "rejected" => calls'[i].race = "rejected"
              /\ calls'[i].timer = "fired" => calls'[i].race = "timeout"
              /\ (calls'[i].op = "running" /\ calls'[i].timer = "armed")
                    => calls'[i].race = "pending"
         /\ (calls'[i].op = "running" /\ calls'[i].race # "pending")
               => calls'[i].race = "timeout"
      ]_vars

C6_Witness ==
    \E i \in DOMAIN calls :
       /\ calls[i].race = "timeout"
       /\ calls[i].op = "resolved"
       /\ calls[i].timer = "fired"

Done(f) == { i \in DOMAIN f.lines : f.lines[i].kind = "done" }

\* C7: the deadline leaves the invocation running, and what the invocation
\* does afterwards stays: breadcrumbs already in the memory store and tasks
\* already checked off are never taken back.
C7_TimeoutDoesNotCancel ==
    [][/\ \A i \in DOMAIN calls :
            (Kept(i) /\ calls[i].timer = "armed" /\ calls'[i].timer = "fired")
               => calls'[i].op = calls[i].op
       /\ Len(memory') >= Len(memory)
       /\ SubSeq(memory', 1, Len(memory)) = memory
       /\ Done(agentPlanning) \subseteq Done(agentPlanning')
      ]_vars

\* an abandoned invocation appended its breadcrumb while the next iteration
\* was waiting for its own invocation
C7_Witness ==
    /\ pc = "await"
    /\ Len(calls) = 2
    /\ calls[1].race = "timeout"
    /\ calls[1].late = "await"
    /\ calls[1].sid \in { memory[k] : k \in DOMAIN memory }
    /\ calls[2].race = "pending"
    /\ streak = 1

\* C8: runTask returns normally whatever autoCommitChanges returns; a return
\* of runTask is a success (counter reset, or exit code 0 under --once) and
\* happens only when the bounded invocation fulfilled; a throw of runTask
\* comes from the reads or from the bounded invocation.
C8_CommitFailureIsSuccess ==
    [][/\ pc = "reconcile" => pc' = "success"
       /\ committed' = "false" => pc' = "success"
       /\ pc = "success" =>
            IF mode = "once"
               THEN exitCode' = 0
               ELSE /\ consecutiveFailures' = 0
                    /\ iteration' = iteration + 1
                    /\ exitCode' = NoExit
       /\ pc' = "success" => calls'[Len(calls')].race = "fulfilled"
       /\ pc' = "catch" =>
            \/ err' = "read"
            \/ calls'[Len(calls')].race \in {"rejected", "timeout"}
      ]_vars

C8_Witness ==
    /\ pc = "success"
    /\ committed = "false"
    /\ mode = "until"
    /\ consecutiveFailures = 2

\* C9: only a timeout or an invocation error reaches the failure branch: a
\* run that never started an invocation has counted no failure and has not
\* exited with a non-zero code.
C9_OnlyInvocationFailuresCount ==
    /\ pc = "catch" => err \in {"timeout", "invocation"}
    /\ started = 0 => consecutiveFailures = 0 /\ exitCode \in {0, NoExit}

\* C10: runTask returns (the iteration is a success) only if the invocation
\* received a `result` message.
C10_SuccessNeedsCompleted == pc = "success" => Cur.result = 1

\* C11: on a task store with no unchecked entry (whatever else it holds, and
\* also when it is missing or unreadable) --until-success starts no invocation
\* and no commit reconciliation: the initial check is its only step, and it
\* exits with code 0.
C11_NothingToDo ==
    n0 = 0 =>
       /\ started = 0
       /\ committed = "unset"
       /\ pc \in {"initial", "exited"}
       /\ pc = "exited" => exitCode = 0

C11_Witness ==
    /\ n0 = 0
    /\ pc = "exited"
    /\ exitCode = 0
    /\ Done(agentPlanning) # {}
    /\ existsSync(rootPlanning)

\* C12: a step that ends an --until-success run sets exactly one of the codes
\* 0, 1, 2: 0 when the guard has just found no unchecked task (the iteration
\* ceiling and the failure threshold not reached), 1 when consecutiveFailures
\* has just reached 3, 2 when iteration has passed 50 (the failure threshold
\* not reached); no code is set before the end and no step follows the end.
C12_ExitCodes ==
    [][/\ pc # "exited"
       /\ pc' # "exited" => exitCode' = NoExit
       /\ (pc' = "exited" /\ mode = "until") =>
            /\ exitCode' \in {0, 1, 2}
            /\ exitCode' = 0 =>
                  /\ ~hasUnfinishedTasks
                  /\ iteration' <= maxIterations
                  /\ consecutiveFailures' < maxConsecutiveFailures
            /\ exitCode' = 1 =>
                  /\ consecutiveFailures = maxConsecutiveFailures - 1
                  /\ consecutiveFailures' = maxConsecutiveFailures
                  /\ iteration' <= maxIterations
            /\ exitCode' = 2 =>
                  /\ iteration' > maxIterations
                  /\ consecutiveFailures' < maxConsecutiveFailures
      ]_vars

C12_Witness ==
    /\ mode = "until"
    /\ pc = "exited"
    /\ exitCode = 0
    /\ started = maxIterations - 1
    /\ consecutiveFailures = maxConsecutiveFailures - 1

\* C13: when the timers fire and the program's own steps (the version-control
\* commands among them) return, every --until-success run ends with a
\* process.exit, whatever the agent does or fails to do.
C13_Terminates == <>(pc = "exited")

\* the third failure in a row is caught while the invocations abandoned by
\* their deadlines are all still running and no task has been checked off
C13_Witness ==
    /\ pc = "catch"
    /\ consecutiveFailures = maxConsecutiveFailures - 1
    /\ Len(calls) = MaxLive
    /\ \A i \in DOMAIN calls : calls[i].op = "running" /\ calls[i].race = "timeout"
    /\ Open(agentPlanning) # {}
    /\ Done(agentPlanning) = {}

\* the git commands of the function proper, without the one of the catch block
Steps(r) == SelectSeq(r.ran, LAMBDA c : c # "status --short")
IsPrefix(a, b) == Len(a) <= Len(b) /\ SubSeq(b, 1, Len(a)) = a

C15_StepsInOrder ==
    \A k \in DOMAIN probe.log :
       LET c == probe.log[k]
           ran == Steps(c.r)
           has(x) == \E j \in DOMAIN ran : ran[j] = x
       IN  /\ IsPrefix(ran, << "status", "add", "diff", "commit" >>)
           /\ ran # << >>
           /\ c.r.commits \in {0, 1}
           /\ c.r.commits = 1 =>
                 /\ c.before \in {"dirty", "staged"}
                 /\ ran = << "status", "add", "diff", "commit" >>
                 /\ c.r.tree = "clean"
           /\ (c.before = "clean" /\ c.f.step # "status") =>
                 /\ ~has("add")
                 /\ ~has("commit")
                 /\ c.r.tree = "clean"
           /\ (c.before = "unstageable") => ~has("commit")

\* a dirty status whose staged diff is empty: no commit is attempted
C15_Witness ==
    \E k \in DOMAIN probe.log :
       /\ probe.log[k].before = "unstageable"
       /\ probe.log[k].r.ran = << "status", "add", "diff" >>
       /\ probe.log[k].r.outcome = "NothingToCommit"

\* C16: the task text of the commit message is never empty, holds only
\* characters of [A-Za-z0-9 _-] and is at most 50 characters long.
C16_SafeTaskText ==
    probe.done =>
       /\ probe.task # << >>
       /\ \A i \in DOMAIN probe.task : probe.task[i] \in SafeChars
       /\ Len(probe.task) <= TruncateAt

\* a description of more than 50 characters with unsafe ones among them
C16_Witness ==
    /\ probe.done
    /\ Len(probe.description) > TruncateAt
    /\ \E i \in DOMAIN probe.description : probe.description[i] = "!"
    /\ \E i \in DOMAIN probe.description : probe.description[i] = "\t"
    /\ Len(probe.task) = TruncateAt

\* a position of str where a whole word ends: the end of str, or the
\* character before a space
WordEnd(str, n) ==
    /\ n \in 1..Len(str)
    /\ str[n] # " "
    /\ n = Len(str) \/ str[n + 1] = " "

\* the spaces of the sanitized description that the cut can go to
CutPoints(str) == { i \in (WordCutMin + 2)..TruncateAt : str[i] = " " }

Breadcrumbs == { memory[k] : k \in DOMAIN memory } \ {OldLine}

\* C18: once the bounded invocation of a call has settled (its stream ended
\* or threw, or its deadline fired), the session id the call announced is in
\* the memory store.
C18_BreadcrumbAtSessionStart ==
    \A i \in DOMAIN calls :
       (calls[i].sid # NoSession /\ calls[i].race # "pending")
          => calls[i].sid \in Breadcrumbs

\* C19: the only change a step makes to the memory store is one appended
\* breadcrumb of a session some invocation announced; the store is never
\* created, removed, shortened or rewritten, so what it held before the run
\* stays in place.
C19_MemoryAppendOnly ==
    [][/\ memoryFile' = memoryFile
       /\ \/ memory' = memory
          \/ \E i \in DOMAIN calls :
                /\ calls[i].sid # NoSession
                /\ memory' = Append(memory, calls[i].sid)
      ]_vars

\* a breadcrumb was appended behind the content of before the run, and the
\* iteration went on to its success branch
C19_Witness ==
    /\ pc = "success"
    /\ Len(memory) = 2
    /\ memory[1] = OldLine
    /\ memory[2] # NoSession
    /\ memory[2] = Cur.sid

\* C20: a task entry is marked completed only in a cycle that is classified
\* as successful: when the first invocation of the run is classified as a
\* failure, the task store still has no completed entry.
C20_MarkedOnlyOnSuccess ==
    (pc = "catch" /\ started = 1) =>
       Done(agentPlanning) = {} /\ Done(rootPlanning) = {}

C22_GuardBeforeInvocation ==
    [][mode = "until" =>
          /\ (pc # "runTask" /\ pc' = "runTask") =>
                pc = "loop" /\ hasUnfinishedTasks /\ UNCHANGED << files, calls, tree >>
          /\ started' # started =>
                /\ pc = "runTask" /\ hasUnfinishedTasks
                /\ started' = started + 1
                /\ pc' = "await"
          /\ pc = "runTask" => pc' \in {"await", "catch"}
          /\ ((pc = "initial" \/ (pc = "loop" /\ LoopCondition(iteration)))
                 /\ ~hasUnfinishedTasks) =>
                pc' = "exited" /\ exitCode' = 0 /\ started' = started
      ]_vars

\* two invocations were started, each behind its guard, and the third guard
\* returned false
C22_Witness ==
    /\ mode = "until"
    /\ pc = "exited"
    /\ exitCode = 0
    /\ started = 2
    /\ iteration = 3

\* C23: when the store the guard selects is missing or cannot be read,
\* hasUnfinishedTasks is false, and the guard step of an --until-success run
\* that meets such a store ends the run with exit code 0: no invocation is
\* started and consecutiveFailures is left as it is.
C23_LostStoreIsNoWork ==
    /\ [](GuardStore.state # "ok" => ~hasUnfinishedTasks)
    /\ [][(/\ mode = "until"
           /\ pc = "initial" \/ (pc = "loop" /\ LoopCondition(iteration))
           /\ GuardStore.state # "ok") =>
              /\ pc' = "exited"
              /\ exitCode' = 0
              /\ started' = started
              /\ consecutiveFailures' = consecutiveFailures
         ]_vars

\* the store went away during a failed iteration: the next guard ended the
\* run with code 0 although a failure was on the counter
C23_Witness ==
    /\ mode = "until"
    /\ pc = "exited"
    /\ exitCode = 0
    /\ GuardStore.state # "ok"
    /\ started = 1
    /\ consecutiveFailures = 1

\* C24: autoCommitChanges has been called by the time an iteration whose
\* bounded invocation timed out or failed reaches the catch branch.
C24_ReconcileOnEverySettle ==
    (mode = "until" /\ pc = "catch" /\ err \in {"timeout", "invocation"}) =>
       committed # "unset"

\* C25: changes that the reconciliation of the first iteration staged and
\* could not commit are committed by the time the second iteration is over,
\* also when the second iteration fails.  (The agent stages nothing itself
\* and a failed iteration does not reconcile: a staged tree in the catch
\* branch of the second iteration is what the first iteration left behind.)
C25_StagedChangesRecovered ==
    (mode = "until" /\ iteration = 2 /\ pc = "catch") => tree # "staged"

\* the text of a task entry as a commit message gets it: an entry with
\* nothing after its marker has none, and the default stands in
TextOf(e) == IF e.kind = "todo" THEN e.text ELSE DefaultTask

\* C26: the task runTask has selected for the first invocation of the run
\* is the first unchecked entry, top to bottom, of the store whose guard
\* returned true (as long as the agent has checked nothing off).
C26_FirstUncheckedSelected ==
    (/\ mode = "until"
     /\ pc = "await"
     /\ started = 1
     /\ Cardinality(Open(GuardStore)) = n0) =>
        currentTask = TextOf(GuardStore.lines[Min(Open(GuardStore))])

\* the git command that failed in a call, if the call got as far as running it
Failed(c) ==
    /\ c.f.step # "none"
    /\ \E j \in DOMAIN c.r.ran : c.r.ran[j] = c.f.step

\* C27: a call returns false exactly when one of its four git commands
\* failed with a message that does not hold "nothing to commit"; a failure
\* whose message holds it is the "nothing to commit" outcome and returns
\* true; neither creates a commit.
C27_CommitFailedRule ==
    \A k \in DOMAIN probe.log :
       LET c == probe.log[k]
       IN  /\ ~c.r.ok <=> (Failed(c) /\ ~c.f.nothing)
           /\ ~c.r.ok <=> c.r.outcome = "CommitFailed"
           /\ (Failed(c) /\ c.f.nothing) =>
                 /\ c.r.ok
                 /\ c.r.outcome = "NothingToCommit"
           /\ Failed(c) => c.r.commits = 0
           /\ ~Failed(c) => c.r.outcome \in {"NothingToCommit", "Committed"}

\* a commit command that failed with "nothing to commit", then one that
\* failed with another message
C27_Witness ==
    /\ Len(probe.log) = 2
    /\ probe.log[1].f = [step |-> "commit", nothing |-> TRUE]
    /\ Failed(probe.log[1])
    /\ probe.log[1].r.ok
    /\ probe.log[2].f = [step |-> "commit", nothing |-> FALSE]
    /\ Failed(probe.log[2])
    /\ ~probe.log[2].r.ok

Max(S) == CHOOSE x \in S : \A y \in S : y <= x
ResultsIn(str) == { i \in DOMAIN str : str[i].type = "result" }

\* C28: the closure returns only when every message of the stream has been
\* consumed and logged, those after a result message included, and what it
\* returns is the text of the last result message ('' when there is none).
C28_ReturnsLastResult ==
    /\ probe.outcome = "returned" =>
          /\ probe.pos = Len(probe.stream) + 1
          /\ probe.logged = Len(probe.stream)
          /\ probe.returned =
                IF ResultsIn(probe.stream) = {} THEN EmptyResult
                ELSE probe.stream[Max(ResultsIn(probe.stream))].val
    /\ probe.outcome # "returned" => probe.returned = EmptyResult
    /\ probe.logged = probe.pos - 1

\* two result messages with different texts and a message after them: the
\* closure returned the second text
C28_Witness ==
    /\ probe.outcome = "returned"
    /\ probe.stream = << [type |-> "result", val |-> 1],
                         [type |-> "result", val |-> 2],
                         [type |-> "assistant", val |-> 1] >>
    /\ probe.returned = 2

\* the loop body of runUntilSuccess is running its iteration
InIteration == mode = "until" /\ pc \in {"runTask", "await", "reconcile", "success", "catch"}

\* C29: while an iteration of runUntilSuccess runs, from its start on,
\* 1 <= iteration <= 50, 0 <= consecutiveFailures <= 2 and
\* consecutiveFailures <= iteration - 1; iteration changes only at the end
\* of an iteration, by exactly +1, after a success and after a failure that
\* does not abort, and stays as it is in the step that aborts.
C29_LoopCounters ==
    /\ [](InIteration =>
            /\ 1 <= iteration /\ iteration <= maxIterations
            /\ 0 <= consecutiveFailures
            /\ consecutiveFailures <= maxConsecutiveFailures - 1
            /\ consecutiveFailures <= iteration - 1)
    /\ [][mode = "until" =>
            /\ iteration' # iteration => pc \in {"success", "catch"}
            /\ pc = "success" => iteration' = iteration + 1
            /\ pc = "catch" =>
                  iteration' = IF pc' = "exited" THEN iteration ELSE iteration + 1
         ]_vars

\* the 50th iteration starts with two failures on the counter
C29_Witness ==
    /\ mode = "until"
    /\ pc = "runTask"
    /\ iteration = maxIterations
    /\ consecutiveFailures = maxConsecutiveFailures - 1

\* C30: when the 50th iteration ends without the abort, the loop is left
\* without a delay and the next step is the exit with code 2, whatever the
\* task store holds: the guard is not asked again.
C30_CeilingBeforeGuard ==
    [][mode = "until" =>
          /\ (pc \in {"success", "catch"} /\ iteration = maxIterations
                 /\ pc' # "exited") =>
                pc' = "loop" /\ iteration' = maxIterations + 1
          /\ (pc = "loop" /\ iteration = maxIterations + 1) =>
                /\ pc' = "exited"
                /\ exitCode' = 2
                /\ started' = started
                /\ UNCHANGED files
      ]_vars

\* the run exited with code 2 after 50 invocations although the last
\* unchecked task was checked off during the 50th iteration
C30_Witness ==
    /\ mode = "until"
    /\ pc = "exited"
    /\ exitCode = 2
    /\ started = maxIterations
    /\ ~hasUnfinishedTasks
    /\ Done(agentPlanning) # {}

\* C31: the third failure in a row ends the run with exit code 1 in the
\* step that counts it, before iteration is incremented, in iteration 50 as
\* in any other; an exit with code 2 never has three failures on the
\* counter.
C31_AbortBeforeCeiling ==
    /\ []((mode = "until" /\ exitCode = 2) =>
             consecutiveFailures < maxConsecutiveFailures)
    /\ []((mode = "until" /\ exitCode = 1) =>
             /\ consecutiveFailures = maxConsecutiveFailures
             /\ iteration <= maxIterations)
    /\ [][(/\ mode = "until"
           /\ pc = "catch"
           /\ consecutiveFailures = maxConsecutiveFailures - 1) =>
              /\ pc' = "exited"
              /\ exitCode' = 1
              /\ iteration' = iteration
         ]_vars

\* the third failure in a row came in iteration 50: exit code 1
C31_Witness ==
    /\ mode = "until"
    /\ pc = "exited"
    /\ exitCode = 1
    /\ iteration = maxIterations
    /\ consecutiveFailures = maxConsecutiveFailures
    /\ started = maxIterations

\* a step in which a message or the end of the stream of call i is handled
\* after the deadline of call i has won its race
AbandonedEvent(i) ==
    /\ Kept(i)
    /\ calls[i].race = "timeout"
    /\ calls[i].op = "running"
    /\ calls'[i] # calls[i]

\* C32: an event of an abandoned invocation changes the locals of its own
\* runTask call and nothing of the controller or of another call: the
\* counters, the position of the loop, the task text and the session id and
\* result of every other call stay as they are.  Every call starts without
\* a session id, no two calls hold the same one, and the reconciliation
\* runs for the call of its own iteration, whose invocation fulfilled.
C32_AbandonedEventsAreLocal ==
    /\ [](\A i, j \in DOMAIN calls :
             (i # j /\ calls[i].sid # NoSession) => calls[i].sid # calls[j].sid)
    /\ [](pc \in {"reconcile", "success"} => Cur.race = "fulfilled")
    /\ [][/\ \A i \in DOMAIN calls :
               AbandonedEvent(i) =>
                  /\ UNCHANGED << iteration, consecutiveFailures, pc, exitCode,
                                  currentTask, err, committed >>
                  /\ \A j \in DOMAIN calls \ {i} : calls'[j] = calls[j]
                  /\ calls'[i].race = "timeout"
          /\ Len(calls') = Len(calls) + 1 => calls'[Len(calls')] = NewCall
         ]_vars

\* the abandoned invocation of the first iteration announced its session and
\* delivered its result while the second iteration was waiting; the second
\* iteration then reconciles with no session id and an empty result
C32_Witness ==
    /\ pc = "reconcile"
    /\ Len(calls) = 2
    /\ calls[1].race = "timeout"
    /\ calls[1].op = "running"
    /\ calls[1].sid # NoSession
    /\ calls[1].result = 1
    /\ calls[1].late = "await"
    /\ calls[2].sid = NoSession
    /\ calls[2].result = 0
    /\ iteration = 2
    /\ consecutiveFailures = 1

\* the text of the first unchecked entry of a store, top to bottom
FirstUnchecked(f) ==
    IF Open(f) = {} THEN DefaultTask ELSE TextOf(f.lines[Min(Open(f))])

\* C33: the task text that autoCommitChanges is given is taken from
\* .agent/planning.md when runTask starts, before the invocation, as the
\* first unchecked entry the store has at that moment; it stays the same
\* through the invocation and the reconciliation, whatever the agent does
\* to the store.
C33_TaskReadBeforeInvocation ==
    [][/\ (pc = "runTask" /\ pc' = "await") =>
             currentTask' = FirstUnchecked(agentPlanning)
       /\ pc \in {"await", "reconcile"} => currentTask' = currentTask
       /\ (pc = "reconcile" /\ tree # "clean") =>
             \/ tree' = "clean" /\ committed' = "true"
             \/ tree' # "clean"
      ]_vars

\* the agent checked the task off and changed files: the reconciliation is
\* about to commit under the text of the task that is now checked, not of
\* the one that is now first
C33_Witness ==
    /\ pc = "reconcile"
    /\ tree = "dirty"
    /\ currentTask # DefaultTask
    /\ agentPlanning.lines[currentTask].kind = "done"
    /\ FirstUnchecked(agentPlanning) \notin {currentTask, DefaultTask}

\* the text is an integer in decimal notation, white space around it aside
IsInteger(str) == ~ParseWhole(str).nan

\* C34: getTimeout returns a positive integer; it returns the value of
\* LOOP_TIMEOUT_MS when the variable holds a positive integer, and the
\* default 600000 when the variable is unset, empty, not an integer, zero
\* or negative.
C34_TimeoutRule ==
    probe.done =>
       /\ probe.timeout > 0
       /\ probe.timeout =
             IF /\ probe.env.set
                /\ IsInteger(probe.env.text)
                /\ ParseWhole(probe.env.text).val > 0
                THEN ParseWhole(probe.env.text).val
                ELSE DefaultTimeout

====
